---- MODULE Spec2Model ----
(***************************************************************************)
(* Model of BaseClass (src/base_class.py): the fitting loop of a VAE-type  *)
(* model.  The state is the object's training bookkeeping (global_iter,    *)
(* converged, loss_list, best_avg_loss, loss_improvement_counter), the     *)
(* constructor arguments the loop reads (log_interval, steps_anneal,       *)
(* verbose), the mode of the wrapped torch module, and the position of the *)
(* single thread of control inside train / test / run_training.            *)
(*                                                                         *)
(* The model, the data loaders and the loss function are supplied by       *)
(* subclasses: the loss every call of step() returns is an input, drawn    *)
(* from LossValues, and the length of a loader from 0..MaxBatches.         *)
(***************************************************************************)
EXTENDS Integers, Sequences, FiniteSets

(***************************************************************************)
(* The source hard-codes 100 three times: the capacity of loss_list (line  *)
(* 91), the number of fitting iterations between two convergence checks    *)
(* (line 95) and the number of checks without improvement that end the     *)
(* fitting (line 106).  The three are kept as separate parameters and      *)
(* scaled down so that every window content can be enumerated; no          *)
(* definition below depends on their values or on their being equal.       *)
(***************************************************************************)
WindowCap == 2
CheckInterval == 2
Patience == 2

\* Bounds of the exploration.
MaxIter == 5          \* fitting iterations explored (global_iter)
MaxBatches == 2       \* batches in a train loader
MaxEpoch == 2         \* epochs explored within one run_training call
MaxCounter == 3       \* largest loss_improvement_counter explored

\* Arguments tried.  steps_anneal: annealing off, and annealing that ends
\* between two convergence checks.  log_interval: every batch, and every
\* second batch.  max_epochs: none, one and two epochs.  The loader given
\* to test(): empty, and one batch.
AnnealChoices == {0, 4}
LogIntervalChoices == {1, 2}
MaxEpochsChoices == {0, 1, 2}
EvalLoaderSizes == {0, 1}

(***************************************************************************)
(* Floating-point values.  A float is NaN, +inf, -inf or a finite value,   *)
(* held as a reduced fraction num/den; NoneF is Python's None.             *)
(***************************************************************************)
RECURSIVE GCD(_, _)
GCD(a, b) == IF b = 0 THEN a ELSE GCD(b, a % b)

Fin(n, d) == LET g == GCD(IF n < 0 THEN -n ELSE n, d)
             IN  [k |-> "fin", num |-> n \div g, den |-> d \div g]
NaN == [k |-> "nan", num |-> 0, den |-> 1]
PInf == [k |-> "pinf", num |-> 0, den |-> 1]
NInf == [k |-> "ninf", num |-> 0, den |-> 1]
NoneF == [k |-> "none", num |-> 0, den |-> 1]

\* The losses step() is taken to return: two finite values, so that a mean
\* can fall, rise or stay, and each non-finite float.
LossValues == {Fin(0, 1), Fin(1, 1), NaN, PInf, NInf}

\* a < b on floats: False whenever either side is NaN.
LessF(a, b) ==
    /\ a.k # "nan"
    /\ b.k # "nan"
    /\ CASE a.k = "ninf" -> b.k # "ninf"
         [] a.k = "pinf" -> FALSE
         [] OTHER -> \/ b.k = "pinf"
                     \/ b.k = "fin" /\ a.num * b.den < b.num * a.den

\* a >= b on floats: False whenever either side is NaN.
GreaterEqF(a, b) ==
    /\ a.k # "nan"
    /\ b.k # "nan"
    /\ ~LessF(a, b)

\* a + b on floats.
AddF(a, b) ==
    CASE a.k = "nan" \/ b.k = "nan" -> NaN
      [] a.k = "pinf" -> IF b.k = "ninf" THEN NaN ELSE PInf
      [] a.k = "ninf" -> IF b.k = "pinf" THEN NaN ELSE NInf
      [] b.k = "pinf" -> PInf
      [] b.k = "ninf" -> NInf
      [] OTHER -> Fin(a.num * b.den + b.num * a.den, a.den * b.den)

RECURSIVE SumF(_)
SumF(s) == IF s = << >> THEN Fin(0, 1) ELSE AddF(Head(s), SumF(Tail(s)))

\* np.mean of a non-empty list.
Mean(s) ==
    LET t == SumF(s)
    IN  IF t.k = "fin" THEN Fin(t.num, t.den * Len(s)) ELSE t

\* A variant of torch_isnan that tests for an infinite loss instead.
torch_isnan_isinf(loss) == loss.k \in {"pinf", "ninf"}

\* torch.isnan(loss)
torch_isnan(loss) == loss.k = "nan"

VARIABLES
    global_iter,               \* self.global_iter
    converged,                 \* self.converged
    loss_list,                 \* self.loss_list
    best_avg_loss,             \* self.best_avg_loss
    loss_improvement_counter,  \* self.loss_improvement_counter
    log_interval,              \* self.log_interval
    steps_anneal,              \* self.steps_anneal
    verbose,                   \* self.verbose
    training,                  \* self.model.training
    opt_steps,                 \* number of self.optimizer.step() calls made
    pc,                        \* "idle", "train", "epoch_end" or "test"
    remaining,                 \* batches the running loader loop has yet to yield
    in_run,                    \* the running train() was called by run_training
    n_batches,                 \* batches of run_training's train_loader
    epoch,                     \* run_training's local epoch
    max_epochs,                \* run_training's argument max_epochs
    printed,                   \* messages printed by the latest step
    checked,                   \* the latest step examined the window's mean
    last_loss,                 \* loss returned by the latest step() of train()
    passed                     \* latest losses passed to check_convergence

vars == <<global_iter, converged, loss_list, best_avg_loss,
          loss_improvement_counter, log_interval, steps_anneal, verbose,
          training, opt_steps, pc, remaining, in_run, n_batches, epoch,
          max_epochs, printed, checked, last_loss, passed>>

self_vars == <<global_iter, converged, loss_list, best_avg_loss,
               loss_improvement_counter>>
config_vars == <<log_interval, steps_anneal, verbose>>
run_vars == <<in_run, n_batches, epoch, max_epochs>>

\* passed keeps as many losses as the window may hold.
HistLen == WindowCap

LastN(s, n) == SubSeq(s, Len(s) - n + 1, Len(s))
Min(a, b) == IF a < b THEN a ELSE b
Record(h, loss) == LET a == Append(h, loss) IN LastN(a, Min(Len(a), HistLen))

(***************************************************************************)
(* __init__                                                                *)
(***************************************************************************)
Init ==
    /\ global_iter = 0
    /\ converged = FALSE
    /\ loss_list = << >>
    /\ best_avg_loss = NoneF
    /\ loss_improvement_counter = 0
    /\ log_interval \in LogIntervalChoices
    /\ steps_anneal \in AnnealChoices
    /\ verbose \in BOOLEAN
    /\ verbose \/ log_interval = 1  \* log_interval matters only to a report
    /\ training = TRUE
    /\ opt_steps = 0
    /\ pc = "idle"
    /\ remaining = 0
    /\ in_run = FALSE
    /\ n_batches = 0
    /\ epoch = 0
    /\ max_epochs = 0
    /\ printed = {}
    /\ checked = FALSE
    /\ last_loss = NoneF
    /\ passed = << >>

(***************************************************************************)
(* step: the optimizer steps when the module is in training mode and the   *)
(* loss is not NaN.                                                        *)
(***************************************************************************)
StepTaken(is_training, loss) == is_training /\ ~torch_isnan(loss)

(***************************************************************************)
(* check_convergence                                                       *)
(***************************************************************************)
\* A variant of AppendLoss that pops as soon as the list is full.
AppendLoss_early(ll, loss) ==
    LET a == Append(ll, loss)
    IN  IF Len(a) >= WindowCap THEN Tail(a) ELSE a

\* loss_list after the append and the pop(0).
AppendLoss(ll, loss) ==
    LET a == Append(ll, loss)
    IN  IF Len(a) > WindowCap THEN Tail(a) ELSE a

\* The condition under which the mean of the window is examined.
IsCheck(g) == (g - 1) % CheckInterval = 0 /\ g # 1

\* A variant of Improved that takes an equal mean for an improvement.
Improved_or_equal(cur, best) == LessF(cur, best) \/ (cur.k # "nan" /\ cur = best)

\* The first elif: the window's mean improves on the best one.
Improved(cur, best) == LessF(cur, best)

\* loss_improvement_counter after the improvement branch.
ResetCounter(cnt) == IF cnt >= 1 THEN 0 ELSE cnt

\* The second elif.
NotImproved(cur, best) == GreaterEqF(cur, best)

\* A variant of ConvergedAfter that assigns the outcome of the comparison.
ConvergedAfter_assign(conv, cnt) == cnt >= Patience

\* self.converged after the no-improvement branch.
ConvergedAfter(conv, cnt) == IF cnt >= Patience THEN TRUE ELSE conv

\* The condition under which the progress report is printed.
Reports(g, li, vb) == (g - 1) % li = 0 /\ vb

\* check_convergence(loss, epoch) with self.global_iter = g; epoch is only
\* formatted into the progress report.
check_convergence(loss, g) ==
    LET ll == AppendLoss(loss_list, loss)
        cur == Mean(ll)
    IN  /\ loss_list' = ll
        /\ passed' = Record(passed, loss)
        /\ IF IsCheck(g)
           THEN /\ IF best_avg_loss = NoneF
                   THEN /\ best_avg_loss' = cur
                        /\ UNCHANGED <<loss_improvement_counter, converged>>
                   ELSE IF Improved(cur, best_avg_loss)
                   THEN /\ best_avg_loss' = cur
                        /\ loss_improvement_counter' = ResetCounter(loss_improvement_counter)
                        /\ UNCHANGED converged
                   ELSE IF NotImproved(cur, best_avg_loss)
                   THEN /\ loss_improvement_counter' = loss_improvement_counter + 1
                        /\ converged' = ConvergedAfter(converged, loss_improvement_counter + 1)
                        /\ UNCHANGED best_avg_loss
                   ELSE UNCHANGED <<best_avg_loss, loss_improvement_counter, converged>>
                /\ printed' = IF Reports(g, log_interval, verbose)
                              THEN {"progress"} ELSE {}
                /\ checked' = TRUE
           ELSE /\ UNCHANGED <<best_avg_loss, loss_improvement_counter, converged>>
                /\ printed' = {}
                /\ checked' = FALSE

\* A caller invokes check_convergence directly.
CheckConvergenceCall(loss) ==
    /\ pc = "idle"
    /\ loss_improvement_counter < MaxCounter
    /\ check_convergence(loss, global_iter)
    /\ last_loss' = NoneF
    /\ UNCHANGED <<global_iter, config_vars, training, opt_steps, pc,
                   remaining, run_vars>>

(***************************************************************************)
(* train                                                                   *)
(***************************************************************************)
\* Entry of train(): the module is switched to training mode and the loop
\* over the n batches of the loader begins.
EnterTrain(n, from_run) ==
    /\ training' = TRUE
    /\ pc' = "train"
    /\ remaining' = n
    /\ in_run' = from_run
    /\ printed' = {}
    /\ checked' = FALSE

\* A caller invokes train directly.
TrainCall(n) ==
    /\ pc = "idle"
    /\ EnterTrain(n, FALSE)
    /\ last_loss' = NoneF
    /\ UNCHANGED <<self_vars, config_vars, opt_steps, n_batches, epoch,
                   max_epochs, passed>>

\* The loop's test of self.converged.
Fitting(conv) == ~conv

\* Annealing is over: the loss is passed to check_convergence.
Checking(g, sa) == g >= sa

\* One iteration of the loop of train(); loss is what step() returns.
TrainBatch(loss) ==
    /\ pc = "train"
    /\ remaining > 0
    /\ IF Fitting(converged)
       THEN /\ global_iter < MaxIter
            /\ global_iter' = global_iter + 1
            /\ opt_steps' = IF StepTaken(training, loss) THEN opt_steps + 1 ELSE opt_steps
            /\ last_loss' = loss
            /\ IF torch_isnan(loss)
               THEN /\ printed' = {"nan"}
                    /\ checked' = FALSE
                    /\ converged' = TRUE
                    /\ remaining' = 0
                    /\ UNCHANGED <<loss_list, best_avg_loss,
                                   loss_improvement_counter, passed>>
               ELSE /\ remaining' = remaining - 1
                    /\ IF Checking(global_iter + 1, steps_anneal)
                       THEN check_convergence(loss, global_iter + 1)
                       ELSE /\ printed' = {}
                            /\ checked' = FALSE
                            /\ UNCHANGED <<loss_list, best_avg_loss,
                                           loss_improvement_counter,
                                           converged, passed>>
       ELSE /\ remaining' = 0
            /\ printed' = {}
            /\ checked' = FALSE
            /\ last_loss' = NoneF
            /\ UNCHANGED <<self_vars, opt_steps, passed>>
    /\ UNCHANGED <<config_vars, training, pc, run_vars>>

\* The loop of train() is over: train returns to its caller.
TrainReturn ==
    /\ pc = "train"
    /\ remaining = 0
    /\ pc' = IF in_run THEN "epoch_end" ELSE "idle"
    /\ printed' = {}
    /\ checked' = FALSE
    /\ last_loss' = NoneF
    /\ UNCHANGED <<self_vars, config_vars, training, opt_steps, remaining,
                   run_vars, passed>>

(***************************************************************************)
(* test                                                                    *)
(***************************************************************************)
\* Entry of test(): the module is switched to evaluation mode and the loop
\* over the n batches of eval_loader begins.
TestCall(n) ==
    /\ pc = "idle"
    /\ training' = FALSE
    /\ pc' = "test"
    /\ remaining' = n
    /\ printed' = {}
    /\ checked' = FALSE
    /\ last_loss' = NoneF
    /\ UNCHANGED <<self_vars, config_vars, opt_steps, run_vars, passed>>

\* One iteration of the loop of test(); loss is what step() returns.  It is
\* added to the local eval_loss, the value test() returns, which no state
\* of the object keeps.
TestBatch(loss) ==
    /\ pc = "test"
    /\ remaining > 0
    /\ opt_steps' = IF StepTaken(training, loss) THEN opt_steps + 1 ELSE opt_steps
    /\ remaining' = remaining - 1
    /\ printed' = {}
    /\ checked' = FALSE
    /\ UNCHANGED <<self_vars, config_vars, training, pc, run_vars, last_loss, passed>>

\* The loop of test() is over: the module is switched back to training
\* mode and test returns.
TestReturn ==
    /\ pc = "test"
    /\ remaining = 0
    /\ training' = TRUE
    /\ pc' = "idle"
    /\ printed' = {}
    /\ checked' = FALSE
    /\ UNCHANGED <<self_vars, config_vars, opt_steps, remaining, run_vars,
                   last_loss, passed>>

(***************************************************************************)
(* run_training                                                            *)
(***************************************************************************)
\* The test that ends the while loop with the failure message.
OutOfEpochs(ep, me, conv) == ep = me /\ ~conv

\* run_training returns after printing msgs; its locals are gone.
ExitRun(msgs) ==
    /\ pc' = "idle"
    /\ in_run' = FALSE
    /\ n_batches' = 0
    /\ max_epochs' = 0
    /\ epoch' = 0
    /\ printed' = msgs
    /\ checked' = FALSE

\* run_training(max_epochs = me) on data that gives a train loader of n
\* batches: epoch = 0 and the first test of the while loop.
RunTrainingCall(n, me) ==
    /\ pc = "idle"
    /\ IF Fitting(converged)
       THEN /\ EnterTrain(n, TRUE)
            /\ n_batches' = n
            /\ max_epochs' = me
            /\ epoch' = 0
       ELSE /\ ExitRun({})
            /\ UNCHANGED <<training, remaining>>
    /\ last_loss' = NoneF
    /\ UNCHANGED <<self_vars, config_vars, opt_steps, passed>>

\* train() has returned: the rest of the loop body and the next test of
\* the while loop.
RunEpochEnd ==
    /\ pc = "epoch_end"
    /\ epoch < MaxEpoch
    /\ IF OutOfEpochs(epoch + 1, max_epochs, converged)
       THEN /\ ExitRun({"failed"})
            /\ UNCHANGED <<training, remaining>>
       ELSE IF Fitting(converged)
       THEN /\ EnterTrain(n_batches, TRUE)
            /\ epoch' = epoch + 1
            /\ UNCHANGED <<n_batches, max_epochs>>
       ELSE /\ ExitRun({})
            /\ UNCHANGED <<training, remaining>>
    /\ UNCHANGED <<self_vars, config_vars, opt_steps, last_loss, passed>>

Next ==
    \/ \E loss \in LossValues : CheckConvergenceCall(loss)
    \/ \E n \in 0..MaxBatches : TrainCall(n)
    \/ \E loss \in LossValues : TrainBatch(loss)
    \/ TrainReturn
    \/ \E n \in EvalLoaderSizes : TestCall(n)
    \/ \E loss \in LossValues : TestBatch(loss)
    \/ TestReturn
    \/ \E n \in 0..MaxBatches, me \in MaxEpochsChoices : RunTrainingCall(n, me)
    \/ RunEpochEnd

Spec == Init /\ [][Next]_vars

\* The object driven only through train, test and run_training: every loss
\* check_convergence sees is one step() returned during fitting.
NextFit ==
    \/ \E n \in 0..MaxBatches : TrainCall(n)
    \/ \E loss \in LossValues : TrainBatch(loss)
    \/ TrainReturn
    \/ \E n \in EvalLoaderSizes : TestCall(n)
    \/ \E loss \in LossValues : TestBatch(loss)
    \/ TestReturn
    \/ \E n \in 0..MaxBatches, me \in MaxEpochsChoices : RunTrainingCall(n, me)
    \/ RunEpochEnd

SpecFit == Init /\ [][NextFit]_vars

(***************************************************************************)
(* Properties                                                              *)
(***************************************************************************)
\* The latest step was a training batch whose loss check_convergence
\* examined.
BatchJustChecked == last_loss # NoneF /\ checked

NonFinite(x) == x.k \in {"nan", "pinf", "ninf"}

\* A step in which train() processed a batch: step() returned a loss.
BatchProcessed == last_loss' # NoneF

\* C1 as stated: whenever a training batch yields a non-finite loss (NaN,
\* +infinity or -infinity), converged is set and the loop over the batches
\* is left.
C1_NonFiniteEndsFitting ==
    NonFinite(last_loss) => converged /\ pc = "train" /\ remaining = 0

\* C1, amended: whenever a training batch yields a NaN loss, converged is
\* set to True and the loop over the batches is left; with converged set,
\* train processes no further batch and the while loop of run_training
\* returns without starting another epoch and without the failure message.
C1_NaNEndsFitting ==
    [][ /\ (BatchProcessed /\ last_loss'.k = "nan"
              => converged' /\ pc' = "train" /\ remaining' = 0)
        /\ (converged /\ pc = "train"
              => global_iter' = global_iter /\ remaining' = 0)
        /\ (converged /\ pc = "epoch_end"
              => pc' = "idle" /\ ~in_run' /\ "failed" \notin printed')
      ]_vars

\* A NaN loss in the first of two batches of the first epoch of a
\* run_training call that had an epoch to go.
C1_Witness ==
    /\ last_loss.k = "nan"
    /\ in_run
    /\ n_batches = 2
    /\ global_iter = 1
    /\ epoch = 0
    /\ max_epochs = 2
    /\ converged

\* C2: global_iter never decreases and grows by exactly 1 with every
\* training batch processed and with nothing else;
\* loss_improvement_counter changes only by an increment of 1 or by a reset
\* to 0, and a reset happens only at a convergence check whose window mean
\* is strictly below best_avg_loss.
C2_CountersMonotonic ==
    [][ /\ global_iter' = (IF BatchProcessed THEN global_iter + 1 ELSE global_iter)
        /\ \/ loss_improvement_counter' = loss_improvement_counter
           \/ loss_improvement_counter' = loss_improvement_counter + 1
           \/ /\ loss_improvement_counter' = 0
              /\ checked'
              /\ best_avg_loss # NoneF
              /\ LessF(Mean(loss_list'), best_avg_loss)
      ]_vars

\* A convergence check after the first one, made by train(), that found an
\* improved mean and left the counter at 0.
C2_Witness ==
    /\ steps_anneal = 0
    /\ global_iter = 2 * CheckInterval + 1
    /\ BatchJustChecked
    /\ best_avg_loss = Mean(loss_list)
    /\ best_avg_loss.k = "fin"
    /\ loss_improvement_counter = 0

\* C3 as stated: once convergence checking is active, a training batch
\* prints a progress report exactly when verbose is True and
\* global_iter - 1 is divisible by log_interval.
C3_ReportEveryLogInterval ==
    (last_loss # NoneF /\ last_loss.k # "nan" /\ global_iter >= steps_anneal)
        => ("progress" \in printed <=> (verbose /\ (global_iter - 1) % log_interval = 0))

\* C4 as stated: run_training never executes more than max_epochs epochs,
\* and prints the failure message only when it stops unconverged.
C4_AtMostMaxEpochs ==
    /\ (in_run => epoch + 1 <= max_epochs)
    /\ ("failed" \in printed => ~converged)

\* C5: converged, once True, stays True; from then on train processes no
\* batch (global_iter, loss_list, best_avg_loss, loss_improvement_counter
\* and the optimizer are left alone) and run_training runs no epoch; and
\* run_training returns before max_epochs epochs only when converged.
C5_ConvergedAbsorbing ==
    [][ /\ (converged => converged')
        /\ (converged /\ (pc \in {"train", "epoch_end"} \/ pc' = "train")
              => UNCHANGED <<global_iter, loss_list, best_avg_loss,
                             loss_improvement_counter, opt_steps>>)
        /\ (converged /\ pc = "idle" => ~in_run')
        /\ (in_run /\ ~in_run' => converged \/ epoch + 1 = max_epochs)
      ]_vars

\* train() is inside its loop with a batch left and converged set.
C5_Witness ==
    /\ converged
    /\ pc = "train"
    /\ remaining > 0

\* C6 as stated: a convergence check sets converged exactly when the
\* counter reaches the patience; the first check leaves the counter alone,
\* a check whose mean is strictly below best_avg_loss resets it, every
\* other check adds 1 to it, and nothing else changes it.
C6_CounterCountsChecks ==
    [][ /\ (checked' /\ ~converged => (converged' <=> loss_improvement_counter' = Patience))
        /\ (~checked' => loss_improvement_counter' = loss_improvement_counter)
        /\ (checked' =>
              loss_improvement_counter' =
                 IF best_avg_loss = NoneF THEN loss_improvement_counter
                 ELSE IF LessF(Mean(loss_list'), best_avg_loss) THEN 0
                 ELSE loss_improvement_counter + 1)
      ]_vars

\* C7: loss_list never holds more than WindowCap entries and is, oldest
\* first, the latest losses passed to check_convergence, as many as were
\* passed or WindowCap of them.
C7_RollingWindow ==
    /\ Len(loss_list) <= WindowCap
    /\ loss_list = LastN(passed, Min(Len(passed), WindowCap))

\* The window is full and has dropped its oldest loss.
C7_Witness ==
    /\ steps_anneal = 0
    /\ global_iter >= WindowCap + 2
    /\ Len(loss_list) = WindowCap
    /\ loss_list[1] # loss_list[WindowCap]

TypeOK ==
    /\ global_iter \in 0..MaxIter
    /\ converged \in BOOLEAN
    /\ Len(loss_list) <= WindowCap
    /\ pc \in {"idle", "train", "epoch_end", "test"}
    /\ remaining \in 0..MaxBatches
====
